---- MODULE Spec2Model ----
(***************************************************************************)
(* bevy_rng: a plugin that publishes an optional Seed resource, and a      *)
(* per-system Rng handle built from that resource (src/lib.rs).            *)
(*                                                                         *)
(* Machine words are byte sequences, least significant byte first, so     *)
(* that every u32 (4 bytes) and u64 (8 bytes) keeps its exact width.       *)
(***************************************************************************)
EXTENDS Integers, Sequences, FiniteSets, TLC

\* ------------------------------------------------------------------------
\* Bounds of the model
\* ------------------------------------------------------------------------
NSystems == 2
MaxDraws == 3

Systems == 1..NSystems

\* ------------------------------------------------------------------------
\* Fixed-width words: a u32 is 4 bytes, a u64 is 8 bytes, least significant
\* byte first
\* ------------------------------------------------------------------------
Pow2(n) == 2 ^ n

\* e, with v evaluated first: TLC evaluates operator arguments by need, and
\* this keeps the evaluation of a long chain of word operations shallow.
Strict(v, e) == IF v = v THEN e ELSE e

\* a ^ b on one byte
XorByte(a, b) ==
    LET bit(k) == (((a \div k) + (b \div k)) % 2) * k
    IN  bit(1) + bit(2) + bit(4) + bit(8) + bit(16) + bit(32) + bit(64) + bit(128)

\* a ^ b
Xor(a, b) ==
    IF Len(a) = 4
    THEN <<XorByte(a[1], b[1]), XorByte(a[2], b[2]), XorByte(a[3], b[3]), XorByte(a[4], b[4])>>
    ELSE <<XorByte(a[1], b[1]), XorByte(a[2], b[2]), XorByte(a[3], b[3]),
           XorByte(a[4], b[4]), XorByte(a[5], b[5]), XorByte(a[6], b[6]), XorByte(a[7], b[7]), XorByte(a[8], b[8])>>

\* a << n, bits shifted out of the word are lost
Shl(a, n) ==
    LET q == n \div 8
        r == n % 8
        src(j) == IF j >= 1 /\ j <= Len(a) THEN a[j] ELSE 0
        f(j) == ((src(j - q) * Pow2(r)) % 256) + (src(j - q - 1) \div Pow2(8 - r))
    IN  IF Len(a) = 4
        THEN <<f(1), f(2), f(3), f(4)>>
        ELSE <<f(1), f(2), f(3), f(4), f(5), f(6), f(7), f(8)>>

\* a >> n
Shr(a, n) ==
    LET q == n \div 8
        r == n % 8
        src(j) == IF j >= 1 /\ j <= Len(a) THEN a[j] ELSE 0
        f(j) == (src(j + q) \div Pow2(r)) + ((src(j + q + 1) * Pow2(8 - r)) % 256)
    IN  IF Len(a) = 4
        THEN <<f(1), f(2), f(3), f(4)>>
        ELSE <<f(1), f(2), f(3), f(4), f(5), f(6), f(7), f(8)>>

\* u32::rotate_right
rotate_right(a, r) ==
    LET lo == Shr(a, r)
        hi == Shl(a, 32 - r)
    IN  <<lo[1] + hi[1], lo[2] + hi[2], lo[3] + hi[3], lo[4] + hi[4]>>

\* `as u32`: the low 4 bytes
AsU32(v) == <<v[1], v[2], v[3], v[4]>>

\* u64::wrapping_add: byte-wise with carry, the carry out of byte 8 dropped
wrapping_add(a, b) ==
    LET t1 == a[1] + b[1]
        t2 == a[2] + b[2] + (t1 \div 256)
        t3 == a[3] + b[3] + (t2 \div 256)
        t4 == a[4] + b[4] + (t3 \div 256)
        t5 == a[5] + b[5] + (t4 \div 256)
        t6 == a[6] + b[6] + (t5 \div 256)
        t7 == a[7] + b[7] + (t6 \div 256)
        t8 == a[8] + b[8] + (t7 \div 256)
    IN  <<t1 % 256, t2 % 256, t3 % 256, t4 % 256, t5 % 256, t6 % 256, t7 % 256, t8 % 256>>

\* u64::wrapping_mul: column sums of byte products with carry, modulo 2^64
wrapping_mul(a, b) ==
    LET c1 == a[1] * b[1]
        c2 == a[1] * b[2] + a[2] * b[1] + (c1 \div 256)
        c3 == a[1] * b[3] + a[2] * b[2] + a[3] * b[1] + (c2 \div 256)
        c4 == a[1] * b[4] + a[2] * b[3] + a[3] * b[2] + a[4] * b[1] + (c3 \div 256)
        c5 == a[1] * b[5] + a[2] * b[4] + a[3] * b[3] + a[4] * b[2] + a[5] * b[1] + (c4 \div 256)
        c6 == a[1] * b[6] + a[2] * b[5] + a[3] * b[4] + a[4] * b[3] + a[5] * b[2] + a[6] * b[1] + (c5 \div 256)
        c7 == a[1] * b[7] + a[2] * b[6] + a[3] * b[5] + a[4] * b[4] + a[5] * b[3] + a[6] * b[2] + a[7] * b[1] + (c6 \div 256)
        c8 == a[1] * b[8] + a[2] * b[7] + a[3] * b[6] + a[4] * b[5] + a[5] * b[4] + a[6] * b[3] + a[7] * b[2] + a[8] * b[1] + (c7 \div 256)
    IN  <<c1 % 256, c2 % 256, c3 % 256, c4 % 256, c5 % 256, c6 % 256, c7 % 256, c8 % 256>>

\* A u64 given by a literal below 2^24, as its 8 little-endian bytes.
u64(n) == <<n % 256, (n \div 256) % 256, (n \div 65536) % 256, 0, 0, 0, 0, 0>>

\* ------------------------------------------------------------------------
\* The Seed resource and the plugin descriptor
\* ------------------------------------------------------------------------
None == [tag |-> "None"]

Seed_Number(n) == [tag |-> "Number", val |-> n]

Seed_String(s) == [tag |-> "String", val |-> s]

\* Inputs: texts as UTF-8 byte sequences ("" and "alpha"), u64 values 0, 42.
Texts == {<<>>, <<97, 108, 112, 104, 97>>}

Numbers == {u64(0), u64(42)}

Seeds == {Seed_Number(n) : n \in Numbers} \cup {Seed_String(t) : t \in Texts}

RngPlugin(seed) == [seed |-> seed]

RngPlugin_default == RngPlugin(None)

to_owned(s) == SubSeq(s, 1, Len(s))

RngPlugin_from_String(seed) == RngPlugin(Seed_String(seed))

RngPlugin_from_str(seed) == RngPlugin(Seed_String(to_owned(seed)))

\* From<u64> storing the number's bytes as a text seed.
RngPlugin_from_u64_as_text(seed) == RngPlugin(Seed_String(seed))

RngPlugin_from_u64(seed) == RngPlugin(Seed_Number(seed))

\* ------------------------------------------------------------------------
\* XorShiftRng, as reached through Rng's Deref/DerefMut
\* ------------------------------------------------------------------------
BAD_5EED == <<237, 94, 173, 11>>

Zero32 == <<0, 0, 0, 0>>

\* XorShiftRng::from_seed: four little-endian u32 words out of 16 bytes; an
\* all-zero seed is replaced by the preset 0x0BAD5EED words.
from_seed(bytes) ==
    LET word(k) == <<bytes[4 * k + 1], bytes[4 * k + 2], bytes[4 * k + 3], bytes[4 * k + 4]>>
        zero == \A k \in 0..3 : word(k) = Zero32
        pick(k) == IF zero THEN BAD_5EED ELSE word(k)
    IN  Strict(bytes, [x |-> pick(0), y |-> pick(1), z |-> pick(2), w |-> pick(3)])

PCG_MUL == <<45, 127, 149, 76, 45, 244, 81, 88>>

PCG_INC == <<243, 23, 190, 111, 228, 84, 118, 161>>

pcg_advance(state) == wrapping_add(wrapping_mul(state, PCG_MUL), PCG_INC)

pcg_output(state) ==
    LET xorshifted == AsU32(Shr(Xor(Shr(state, 18), state), 27))
        rot == Shr(state, 59)[1]
    IN  Strict(xorshifted, rotate_right(xorshifted, rot))

\* SeedableRng::seed_from_u64: fills the 16 seed bytes from a PCG32 stream.
seed_from_u64(state) ==
    LET s1 == pcg_advance(state)
        s2 == pcg_advance(s1)
        s3 == pcg_advance(s2)
        s4 == pcg_advance(s3)
    IN  Strict(<<state, s1, s2, s3, s4>>,
               from_seed(pcg_output(s1) \o pcg_output(s2) \o pcg_output(s3) \o pcg_output(s4)))

\* Seeder::from(text).make_rng(): the text hashed (its bytes followed by the
\* 0xff terminator of str's Hash impl) into seed material for from_seed.  The
\* hash belongs to the rand_seeder crate; it is represented here by a
\* multiplicative fold of the bytes into a 64-bit value, expanded like a
\* numeric seed.  Only its being a function of the text is relied upon.
RECURSIVE hash_bytes(_, _, _)
hash_bytes(bytes, i, h) ==
    IF i > Len(bytes) THEN h
    ELSE Strict(h, hash_bytes(bytes, i + 1,
                              wrapping_add(wrapping_mul(h, PCG_MUL), u64(bytes[i]))))

Seeder_make_rng(text) == seed_from_u64(hash_bytes(text \o <<255>>, 1, u64(0)))

\* XorShiftRng::next_u32: the state after the draw and the value drawn.
next_u32(g) ==
    LET t == Xor(g.x, Shl(g.x, 11))
        w == Xor(Xor(g.w, Shr(g.w, 19)), Xor(t, Shr(t, 8)))
    IN  Strict(t, [rng |-> [x |-> g.y, y |-> g.z, z |-> g.w, w |-> w], value |-> w])

\* ------------------------------------------------------------------------
\* Rng::from_resources
\* ------------------------------------------------------------------------
\* The None arm seeding XorShiftRng from 16 zero bytes instead of the u64 0.
Rng_from_resources_zero_bytes(res) ==
    CASE res.tag = "String" -> Seeder_make_rng(res.val)
      [] res.tag = "Number" -> seed_from_u64(res.val)
      [] res.tag = "None"   -> from_seed(<<0, 0, 0, 0, 0, 0, 0, 0, 0, 0, 0, 0, 0, 0, 0, 0>>)

\* resources.get::<Seed>() unwrapped: a panic when no Seed is present.
Rng_from_resources_unwrap(res) ==
    CASE res.tag = "String" -> Seeder_make_rng(res.val)
      [] res.tag = "Number" -> seed_from_u64(res.val)
      [] res.tag = "None"   -> [panic |-> "unwrap on None"]

Rng_from_resources(res) ==
    CASE res.tag = "String" -> Seeder_make_rng(res.val)
      [] res.tag = "Number" -> seed_from_u64(res.val)
      [] res.tag = "None"   -> seed_from_u64(u64(0))

\* ------------------------------------------------------------------------
\* State
\* ------------------------------------------------------------------------
VARIABLES
    plugin,     \* the RngPlugin descriptor held by the application code
    resources,  \* the Seed entry of the app's resources, or None
    rng,        \* per system: its Local<Rng>, or NotBuilt
    seen,       \* per system: what resources.get::<Seed>() returned to it
    out         \* per system: the values drawn so far

vars == <<plugin, resources, rng, seen, out>>

NotBuilt == [tag |-> "NotBuilt"]

Built(s) == rng[s] # NotBuilt

\* The number of draws made so far, over all systems (bounded by MaxDraws).
RECURSIVE DrawsUpTo(_)
DrawsUpTo(n) == IF n = 0 THEN 0 ELSE Len(out[n]) + DrawsUpTo(n - 1)

TotalDraws == DrawsUpTo(NSystems)

Init ==
    /\ plugin = RngPlugin_default
    /\ resources = None
    /\ rng = [s \in Systems |-> NotBuilt]
    /\ seen = [s \in Systems |-> NotBuilt]
    /\ out = [s \in Systems |-> <<>>]

\* ------------------------------------------------------------------------
\* Operations
\* ------------------------------------------------------------------------
Default ==
    /\ plugin' = RngPlugin_default
    /\ UNCHANGED <<resources, rng, seen, out>>

FromString(t) ==
    /\ plugin' = RngPlugin_from_String(t)
    /\ UNCHANGED <<resources, rng, seen, out>>

FromStr(t) ==
    /\ plugin' = RngPlugin_from_str(t)
    /\ UNCHANGED <<resources, rng, seen, out>>

FromU64(n) ==
    /\ plugin' = RngPlugin_from_u64(n)
    /\ UNCHANGED <<resources, rng, seen, out>>

\* AppBuilder::add_resource: the entry of the value's type is set to the value.
add_resource(res, value) == value

\* build publishing a fallback Seed when the descriptor carries none.
build_fallback_seed ==
    /\ resources' = IF plugin.seed # None
                    THEN add_resource(resources, plugin.seed)
                    ELSE add_resource(resources, Seed_Number(u64(0)))
    /\ UNCHANGED <<plugin, rng, seen, out>>

\* build storing the descriptor's Option as it is, so that an unseeded
\* descriptor clears the entry.
build_stores_option ==
    /\ resources' = plugin.seed
    /\ UNCHANGED <<plugin, rng, seen, out>>

\* build re-seeding the handles that already exist.
build_reseeds_handles ==
    /\ resources' = IF plugin.seed # None
                    THEN add_resource(resources, plugin.seed)
                    ELSE resources
    /\ rng' = [s \in Systems |->
                 IF Built(s) THEN Rng_from_resources(resources') ELSE NotBuilt]
    /\ UNCHANGED <<plugin, seen, out>>

build ==
    /\ resources' = IF plugin.seed # None
                    THEN add_resource(resources, plugin.seed)
                    ELSE resources
    /\ UNCHANGED <<plugin, rng, seen, out>>

\* from_resources seeding each system from its own identity.
from_resources_per_system(s) ==
    /\ rng[s] = NotBuilt
    /\ rng' = [rng EXCEPT ![s] = Rng_from_resources(Seed_Number(u64(s)))]
    /\ seen' = [seen EXCEPT ![s] = resources]
    /\ UNCHANGED <<plugin, resources, out>>

\* from_resources taking the Seed out of the resources.
from_resources_takes_seed(s) ==
    /\ rng[s] = NotBuilt
    /\ rng' = [rng EXCEPT ![s] = Rng_from_resources(resources)]
    /\ seen' = [seen EXCEPT ![s] = resources]
    /\ resources' = None
    /\ UNCHANGED <<plugin, out>>

\* FromResources for Rng, run once for a system's Local<Rng>.
from_resources(s) ==
    /\ rng[s] = NotBuilt
    /\ rng' = [rng EXCEPT ![s] = Rng_from_resources(resources)]
    /\ seen' = [seen EXCEPT ![s] = resources]
    /\ UNCHANGED <<plugin, resources, out>>

\* A draw on one generator shared by all systems.
draw_shared(s) ==
    /\ rng[s] # NotBuilt
    /\ TotalDraws < MaxDraws
    /\ rng' = [t \in Systems |-> IF Built(t) THEN next_u32(rng[t]).rng ELSE NotBuilt]
    /\ out' = [out EXCEPT ![s] = Append(@, next_u32(rng[s]).value)]
    /\ UNCHANGED <<plugin, resources, seen>>

\* One draw of system s on its own handle (DerefMut to XorShiftRng).
draw(s) ==
    /\ rng[s] # NotBuilt
    /\ TotalDraws < MaxDraws
    /\ LET r == next_u32(rng[s])
       IN  /\ rng' = [rng EXCEPT ![s] = r.rng]
           /\ out' = [out EXCEPT ![s] = Append(@, r.value)]
    /\ UNCHANGED <<plugin, resources, seen>>

Next ==
    \/ Default
    \/ \E t \in Texts : FromString(t)
    \/ \E t \in Texts : FromStr(t)
    \/ \E n \in Numbers : FromU64(n)
    \/ build
    \/ \E s \in Systems : from_resources(s)
    \/ \E s \in Systems : draw(s)

Spec == Init /\ [][Next]_vars

\* ------------------------------------------------------------------------
\* Properties
\* ------------------------------------------------------------------------
Min(a, b) == IF a <= b THEN a ELSE b

\* k draws on generator g: the state reached and the values drawn.
RECURSIVE Draws(_, _, _)
Draws(g, k, drawn) ==
    IF k = 0 THEN [rng |-> g, out |-> drawn]
    ELSE LET r == next_u32(g)
         IN  Strict(r, Draws(r.rng, k - 1, Append(drawn, r.value)))

\* The generator from_resources yields for each state of the resources.
InitialRngTable == {<<v, Rng_from_resources(v)>> : v \in Seeds \cup {None}}

InitialRng(v) == (CHOOSE p \in InitialRngTable : p[1] = v)[2]

SamePrefix(s, t) ==
    \A k \in 1..Min(Len(out[s]), Len(out[t])) : out[s][k] = out[t][k]

\* C1: two handles built while the resources hold the same Seed value start
\* in the same state; their draw sequences agree, and after equally many
\* draws they are in the same state.
C1_SameSeedSameSequence ==
    \A s, t \in Systems :
        (Built(s) /\ Built(t) /\ seen[s] \in Seeds /\ seen[t] = seen[s]) =>
            /\ SamePrefix(s, t)
            /\ Len(out[s]) = Len(out[t]) => rng[s] = rng[t]

C1_Witness ==
    \E s, t \in Systems :
        /\ s # t /\ Built(s) /\ Built(t)
        /\ seen[s] \in Seeds /\ seen[s].tag = "String" /\ seen[t] = seen[s]
        /\ Len(out[s]) >= 1 /\ Len(out[t]) = Len(out[s])

\* C2: a handle built while no Seed is present is seeded from the number 0:
\* it agrees, state and draws, with every other handle built without a Seed
\* and with every handle built under Seed::Number(0).
C2_NoSeedIsNumberZero ==
    \A s, t \in Systems :
        (/\ Built(s) /\ Built(t)
         /\ seen[s] = None
         /\ seen[t] \in {None, Seed_Number(u64(0))}) =>
            /\ SamePrefix(s, t)
            /\ Len(out[s]) = Len(out[t]) => rng[s] = rng[t]

C2_Witness ==
    \E s, t \in Systems :
        /\ Built(s) /\ Built(t)
        /\ seen[s] = None /\ seen[t] = Seed_Number(u64(0))
        /\ out[s] = <<>> /\ out[t] = <<>>

\* C3: build with a seeded descriptor leaves the resources holding exactly
\* the descriptor's Seed; build with an unseeded descriptor leaves the
\* resources as they were; the descriptor and the handles are untouched.
C3_BuildEffect ==
    [][build =>
        /\ plugin.seed # None => resources' = plugin.seed
        /\ plugin.seed = None => resources' = resources
        /\ plugin' = plugin
        /\ UNCHANGED <<rng, seen, out>>]_vars

C3_Witness ==
    /\ resources \in Seeds
    /\ plugin.seed = resources
    /\ \A s \in Systems : ~Built(s)

\* C4 (as claimed): the Seed is written at most once and, once present, is
\* never changed or removed.
C4_WrittenOnce == [][resources # None => resources' = resources]_vars

\* C4 (amended): the Seed changes only by a step that sets it to the seed
\* the descriptor carries (a later seeded registration replaces the value),
\* no such step touches a handle, and a Seed once present is never removed.
C4_LastRegistrationWins ==
    [][/\ resources' # resources =>
            /\ plugin.seed # None
            /\ resources' = plugin.seed
            /\ UNCHANGED <<plugin, rng, seen, out>>
       /\ resources # None => resources' # None]_vars

C4_Witness ==
    /\ resources \in Seeds
    /\ \E s \in Systems : Built(s) /\ seen[s] \in Seeds /\ seen[s] # resources

\* C5: a draw on one handle changes that handle only (no other handle, not
\* the Seed), and handles built from the same configuration agree on their
\* k-th drawn value whatever the interleaving of their draws.
C5_IndependentHandles ==
    /\ [](\A s, t \in Systems :
            (Built(s) /\ Built(t) /\ seen[s] = seen[t]) => SamePrefix(s, t))
    /\ [][\A s \in Systems :
            out'[s] # out[s] =>
                /\ resources' = resources
                /\ \A t \in Systems \ {s} : rng'[t] = rng[t] /\ out'[t] = out[t]]_vars

C5_Witness ==
    \E s, t \in Systems :
        /\ s # t /\ Built(s) /\ Built(t) /\ seen[s] = seen[t]
        /\ Len(out[s]) >= 2 /\ Len(out[t]) = 1

ValidWord(w) == Len(w) = 4 /\ \A j \in 1..4 : w[j] \in 0..255

ValidRng(g) ==
    /\ DOMAIN g = {"x", "y", "z", "w"}
    /\ ValidWord(g.x) /\ ValidWord(g.y) /\ ValidWord(g.z) /\ ValidWord(g.w)
    /\ <<g.x, g.y, g.z, g.w>> # <<Zero32, Zero32, Zero32, Zero32>>

\* C6: every conversion and build can be taken for every input in every
\* state, and every operation yields a well-formed result: a descriptor with
\* an optional Seed, resources with an optional Seed, and from every state of
\* the resources (absent, String, Number) a generator with a non-zero
\* 128-bit state, never a failure.
C6_Total ==
    /\ plugin.seed \in Seeds \cup {None}
    /\ resources \in Seeds \cup {None}
    /\ \A s \in Systems :
          Built(s) => seen[s] \in Seeds \cup {None} /\ ValidRng(rng[s])
    /\ ENABLED Default
    /\ \A t \in Texts : ENABLED FromString(t) /\ ENABLED FromStr(t)
    /\ \A n \in Numbers : ENABLED FromU64(n)
    /\ ENABLED build

C6_Witness ==
    \E s, t \in Systems :
        /\ Built(s) /\ seen[s] = None
        /\ Built(t) /\ seen[t] = Seed_String(<<>>)
        /\ plugin.seed \in Seeds /\ plugin.seed.tag = "Number"
        /\ resources = plugin.seed

\* C7: every conversion yields a descriptor carrying its input verbatim: a
\* text, owned or slice, as Seed::String of that text (so the two descriptors
\* are equal), a u64 as Seed::Number of that value; the default descriptor
\* carries no seed.
C7_Verbatim ==
    [][/\ \A t \in Texts :
            (FromString(t) \/ FromStr(t)) =>
                plugin' = [seed |-> [tag |-> "String", val |-> t]]
       /\ \A n \in Numbers :
            FromU64(n) => plugin' = [seed |-> [tag |-> "Number", val |-> n]]
       /\ Default => plugin' = [seed |-> [tag |-> "None"]]]_vars

C7_Witness ==
    /\ plugin.seed.tag = "Number"
    /\ plugin.seed.val = <<42, 0, 0, 0, 0, 0, 0, 0>>
    /\ resources.tag = "String"
    /\ resources.val = <<97, 108, 112, 104, 97>>

\* C9: from_resources leaves the resources as they were, and no step
\* removes a Seed that is present.
C9_ConstructionReadsOnly ==
    /\ [][(\E s \in Systems : ~Built(s) /\ rng'[s] # NotBuilt) =>
            resources' = resources]_vars
    /\ [][resources # None => resources' # None]_vars

C9_Witness ==
    /\ resources \in Seeds
    /\ \A s \in Systems : Built(s) /\ seen[s] = resources

\* C10: in every reachable state, so also after any later write of the Seed,
\* a handle's state and its drawn values are those given by the Seed (or its
\* absence) it saw when it was built and the number of draws made on it.
C10_SnapshotAtConstruction ==
    \A s \in Systems :
        Built(s) =>
            LET d == Draws(InitialRng(seen[s]), Len(out[s]), <<>>)
            IN  rng[s] = d.rng /\ out[s] = d.out

C10_Witness ==
    \E s \in Systems :
        /\ Built(s) /\ seen[s] = None
        /\ resources \in Seeds
        /\ Len(out[s]) >= 1

====
